---- MODULE Spec2Model ----
(***************************************************************************)
(* research-mcp-tool: the task router (src/src/research_mcp/routing.py).   *)
(*                                                                         *)
(* A TaskRouter holds the loaded routing configuration: the 'tasks' dict   *)
(* (task name -> preferred model) and the 'fallbacks' list.  Its five      *)
(* operations are modelled as actions over that state; the Python values   *)
(* they handle (str, None, list objects with identity) are modelled        *)
(* explicitly so that case folding, truthiness and list aliasing are       *)
(* observable in the model.                                                *)
(***************************************************************************)
EXTENDS Naturals, Sequences, FiniteSets, TLC

VARIABLES
    config,     \* self.config: [tasks |-> dict, fallbacks |-> address of the list]
    heap,       \* list objects by address: address -> sequence of strings
    callerRef,  \* the list object the caller holds (NoRef when none)
    last,       \* the last completed call: operation, arguments, outcome
    loaded,     \* history: the configuration as it was at construction
    first,      \* history: the first route_task call and its outcome
    mutated,    \* history: the caller has changed a list get_fallbacks returned
    source,     \* the configuration source TaskRouter(config_path) reads
    boot,       \* the outcome of TaskRouter(config_path): returned, or the error raised
    phase,      \* the server process: off, start, initialized, serving, stopped, exited
    client,     \* self.client of the server: none, open or closed
    upstream,   \* the model ids the upstream lists at present
    calls,      \* the tool calls in flight: call id -> locals and position of the handler
    failures,   \* history: some tool call has failed
    threads     \* the callers that run router operations at the same time: id -> locals

\* the server and the upstream
serverVars == <<phase, client, upstream, calls, failures>>

\* what lies outside the router and its caller
world == <<source, boot, serverVars, threads>>

vars == <<config, heap, callerRef, last, loaded, first, mutated, world>>

-----------------------------------------------------------------------------
(* Bounds of the model.                                                    *)

MaxFallbacks == 2      \* longest configured fallback list
MaxAvailable == 2      \* longest available_models list passed to a call
MaxCallerLen == 3      \* longest list the caller grows a returned list to
MaxCalls == 2          \* tool calls the server handles at the same time
MaxCallers == 2        \* callers that run router operations at the same time

-----------------------------------------------------------------------------
(* Addresses of list objects.                                              *)

NoRef == "no list"
RouterAddr == "self.config['fallbacks']"   \* the list the router holds
CallerAddr == "returned fallbacks"         \* the list get_fallbacks returned last
KeysAddr == "returned tasks"               \* the list get_available_tasks returned last

-----------------------------------------------------------------------------
(* Python values.  A str is a sequence of one-character strings.           *)

PyStr(s) == [type |-> "str", chars |-> s, ref |-> NoRef]
PyNone == [type |-> "NoneType", chars |-> <<>>, ref |-> NoRef]
PyList(a) == [type |-> "list", chars |-> <<>>, ref |-> a]
PyInt == [type |-> "int", chars |-> <<>>, ref |-> NoRef]     \* an int other than 0

\* str.lower() on one character (the alphabet of the model)
lower_char(c) ==
    CASE c = "A" -> "a"
      [] c = "B" -> "b"
      [] OTHER -> c

\* str.lower(): character by character
lower(s) == [i \in 1..Len(s) |-> lower_char(s[i])]

\* Python truthiness of a value, as tested by `not model`
falsy(v) ==
    \/ v.type = "NoneType"
    \/ v.type = "str" /\ v.chars = <<>>

\* ', '.join(items)
RECURSIVE join(_)
join(items) ==
    IF items = <<>> THEN <<>>
    ELSE IF Len(items) = 1 THEN items[1]
    ELSE items[1] \o <<", ">> \o join(Tail(items))

\* `part in text` for strings: part is a contiguous piece of text
contains(text, part) ==
    \E i \in 1..(Len(text) + 1) :
        /\ i + Len(part) - 1 <= Len(text)
        /\ SubSeq(text, i, i + Len(part) - 1) = part

\* a dict with insertion order: a sequence of [key, value] entries, keys distinct
dict_has(d, k) == \E i \in 1..Len(d) : d[i].key = k
dict_get(d, k) ==
    IF dict_has(d, k)
    THEN d[CHOOSE i \in 1..Len(d) : d[i].key = k].value
    ELSE PyNone
dict_keys(d) == [i \in 1..Len(d) |-> d[i].key]

-----------------------------------------------------------------------------
(* Outcomes of a call.                                                     *)

Return(v) == [kind |-> "return", value |-> v, exc |-> "", msg |-> <<>>]
Raise(e, m) == [kind |-> "raise", value |-> PyNone, exc |-> e, msg |-> m]
NoOutcome == [kind |-> "none", value |-> PyNone, exc |-> "", msg |-> <<>>]

-----------------------------------------------------------------------------
(* TaskRouter: the operations as functions of the router's state.          *)

\* self.config['fallbacks'].copy(): the content of a new list
fallbacks_copy(h, cfg) == h[cfg.fallbacks]

\* get_model_for_task: self.config['tasks'].get(task)
get_model_for_task(cfg, task) == dict_get(cfg.tasks, task)

\* get_available_tasks: list(self.config['tasks'].keys())
get_available_tasks(cfg) == dict_keys(cfg.tasks)

\* the set of the available models as they are spelled
model_names_as_spelled(available_models) ==
    {available_models[i] : i \in 1..Len(available_models)}

\* model_names = {m.lower() for m in available_models}
model_names(available_models) ==
    {lower(available_models[i]) : i \in 1..Len(available_models)}

\* the name is looked up as spelled, only the available list is lower-cased
is_available_as_spelled(name, available_models) ==
    name \in model_names(available_models)

\* `x.lower() in model_names`
is_available(name, available_models) ==
    lower(name) \in model_names(available_models)

\* the message of the exhaustion error
exhausted_message(model_name) ==
    <<"Neither model '">> \o model_name \o <<"' nor any fallbacks are available">>

\* the unknown-task message without the list of tasks
unknown_task_message_bare(cfg, task) ==
    <<"Unknown task '">> \o task \o <<"'">>

\* the message of the unknown-task error
unknown_task_message(cfg, task) ==
    <<"Unknown task '">> \o task \o <<"'. Available tasks: ">>
        \o join(get_available_tasks(cfg))

\* the loop returning the first fallback without looking at the available models
first_fallback_unchecked(fallbacks, available_models) ==
    IF fallbacks = <<>> THEN 0 ELSE 1

\* the for loop over the fallbacks: the first one that is available
first_fallback(fallbacks, available_models) ==
    LET hits == {i \in 1..Len(fallbacks) : is_available(fallbacks[i], available_models)}
    IN  IF hits = {} THEN 0
        ELSE CHOOSE i \in hits : \A j \in hits : i <= j

\* a validate_or_fallback that returns the preferred model as the available list spells it
validate_or_fallback_as_listed(h, cfg, model_name, available_models) ==
    IF is_available(model_name, available_models)
    THEN Return(PyStr(available_models[CHOOSE i \in 1..Len(available_models) :
                                          lower(available_models[i]) = lower(model_name)]))
    ELSE LET fallbacks == fallbacks_copy(h, cfg)
             i == first_fallback(fallbacks, available_models)
         IN  IF i # 0
             THEN Return(PyStr(fallbacks[i]))
             ELSE Raise("ValueError", exhausted_message(model_name))

validate_or_fallback(h, cfg, model_name, available_models) ==
    IF is_available(model_name, available_models)
    THEN Return(PyStr(model_name))
    ELSE LET fallbacks == fallbacks_copy(h, cfg)
             i == first_fallback(fallbacks, available_models)
         IN  IF i # 0
             THEN Return(PyStr(fallbacks[i]))
             ELSE Raise("ValueError", exhausted_message(model_name))

route_task(h, cfg, task, available_models) ==
    LET model == get_model_for_task(cfg, task)
    IN  IF falsy(model)
        THEN Raise("ValueError", unknown_task_message(cfg, task))
        ELSE IF model.type # "str"
        THEN \* model_name.lower() on a value that is no str
             Raise("AttributeError", <<"'", model.type, "' object has no attribute 'lower'">>)
        ELSE validate_or_fallback(h, cfg, model.chars, available_models)

-----------------------------------------------------------------------------
(* Inputs.                                                                 *)

SeqsUpTo(S, n) == UNION {[1..k -> S] : k \in 0..n}

ModelIds == {<<>>, <<"a">>, <<"A">>, <<"b">>}
TaskNames == {<<"x">>, <<"y">>, <<"z">>}
TaskValues == {PyNone} \cup {PyStr(s) : s \in ModelIds}

\* the 'tasks' dicts: task x alone, or x then y
TaskDicts ==
    {<<[key |-> <<"x">>, value |-> v]>> : v \in TaskValues}
    \cup {<<[key |-> <<"x">>, value |-> v], [key |-> <<"y">>, value |-> PyStr(<<"b">>)]>> :
            v \in TaskValues}

FallbackLists == SeqsUpTo(ModelIds, MaxFallbacks) \ {<<>>}
AvailableLists == SeqsUpTo(ModelIds, MaxAvailable)

\* the configurations _validate_config accepts
Configs == [tasks : TaskDicts, fallbacks : FallbackLists]

-----------------------------------------------------------------------------
(* The state after TaskRouter(config_path) has returned.                   *)

Call(op, task, model, avail, out) ==
    [op |-> op, task |-> task, model |-> model, avail |-> avail, out |-> out]
NoCall == Call("none", <<>>, <<>>, <<>>, NoOutcome)
NoSource == [kind |-> "none", payload |-> [type |-> "NoneType", items |-> <<>>]]

\* a reply of the upstream to a request: none yet, the data, or an HTTP error
NoReply == [kind |-> "none", ids |-> <<>>]
ReplyOk(ids) == [kind |-> "ok", ids |-> ids]
ReplyError == [kind |-> "error", ids |-> <<>>]

\* the handler of a tool call that has not been received
CallIds == 1..MaxCalls
NoToolCall ==
    [pc |-> "idle", name |-> "", task |-> PyNone, messages |-> FALSE, arg |-> PyNone,
     available_models |-> <<>>, selected_model |-> PyNone, out |-> NoOutcome,
     steps |-> <<>>, list_reply |-> NoReply, chat_reply |-> NoReply,
     chat_model |-> PyNone, after_failure |-> FALSE]

\* no server process
ServerOff ==
    /\ phase = "off"
    /\ client = "none"
    /\ upstream = <<>>
    /\ calls = [c \in CallIds |-> NoToolCall]
    /\ failures = FALSE

\* a caller that runs no router operation
Callers == 1..MaxCallers
NoThread ==
    [pc |-> "idle", op |-> "", task |-> <<>>, model |-> PyNone, available_models |-> <<>>,
     fallbacks |-> <<>>, keys |-> <<>>, i |-> 0, out |-> NoOutcome]
NoThreads == threads = [t \in Callers |-> NoThread]

NoFirst ==
    [set |-> FALSE, task |-> <<>>, avail |-> <<>>, out |-> NoOutcome, repeated |-> FALSE]

InitWith(c) ==
    /\ config = [tasks |-> c.tasks, fallbacks |-> RouterAddr]
    /\ heap = [a \in {RouterAddr, CallerAddr, KeysAddr} |->
                 IF a = RouterAddr THEN c.fallbacks ELSE <<>>]
    /\ callerRef = NoRef
    /\ last = NoCall
    /\ loaded = c
    /\ first = NoFirst
    /\ mutated = FALSE
    /\ source = NoSource
    /\ boot = Return(PyNone)
    /\ ServerOff
    /\ NoThreads

Init == \E c \in Configs : InitWith(c)

-----------------------------------------------------------------------------
(* The operations as actions.                                              *)

GetModelForTask(task) ==
    /\ last' = Call("get_model_for_task", task, <<>>, <<>>,
                    Return(get_model_for_task(config, task)))
    /\ UNCHANGED <<config, heap, callerRef, loaded>>

\* get_fallbacks without the copy: the router's own list object is returned
GetFallbacksAlias ==
    /\ callerRef' = config.fallbacks
    /\ last' = Call("get_fallbacks", <<>>, <<>>, <<>>, Return(PyList(config.fallbacks)))
    /\ UNCHANGED <<config, heap, loaded>>

\* get_fallbacks: a new list object with the content of the router's list
GetFallbacks ==
    /\ heap' = [heap EXCEPT ![CallerAddr] = fallbacks_copy(heap, config)]
    /\ callerRef' = CallerAddr
    /\ last' = Call("get_fallbacks", <<>>, <<>>, <<>>, Return(PyList(CallerAddr)))
    /\ UNCHANGED <<config, loaded>>

\* get_available_tasks: a new list object holding the keys
GetAvailableTasks ==
    /\ heap' = [heap EXCEPT ![KeysAddr] = get_available_tasks(config)]
    /\ last' = Call("get_available_tasks", <<>>, <<>>, <<>>, Return(PyList(KeysAddr)))
    /\ UNCHANGED <<config, callerRef, loaded>>

ValidateOrFallback(model_name, available_models) ==
    /\ last' = Call("validate_or_fallback", <<>>, model_name, available_models,
                    validate_or_fallback(heap, config, model_name, available_models))
    /\ UNCHANGED <<config, heap, callerRef, loaded>>

\* route_task that takes the fallbacks off the router's own list as it tries them
RouteTaskConsuming(task, available_models) ==
    /\ last' = Call("route_task", task, <<>>, available_models,
                    route_task(heap, config, task, available_models))
    /\ heap' = [heap EXCEPT ![config.fallbacks] = IF @ = <<>> THEN @ ELSE Tail(@)]
    /\ UNCHANGED <<config, callerRef, loaded>>

RouteTask(task, available_models) ==
    /\ last' = Call("route_task", task, <<>>, available_models,
                    route_task(heap, config, task, available_models))
    /\ UNCHANGED <<config, heap, callerRef, loaded>>

\* The caller is sequential: it issues a call when it holds no pending result,
\* and drops the result before the next call.
Idle == last.op = "none"

ResultConsumed ==
    /\ ~Idle
    /\ last' = NoCall
    /\ UNCHANGED <<config, heap, callerRef, loaded, first, mutated, world>>

Next ==
    \/ Idle /\ \E t \in TaskNames : GetModelForTask(t) /\ UNCHANGED <<first, mutated, world>>
    \/ Idle /\ GetFallbacks /\ UNCHANGED <<first, mutated, world>>
    \/ Idle /\ GetAvailableTasks /\ UNCHANGED <<first, mutated, world>>
    \/ Idle /\ \E m \in ModelIds, av \in AvailableLists :
          ValidateOrFallback(m, av) /\ UNCHANGED <<first, mutated, world>>
    \/ Idle /\ \E t \in TaskNames, av \in AvailableLists :
          RouteTask(t, av) /\ UNCHANGED <<first, mutated, world>>
    \/ ResultConsumed

Spec == Init /\ [][Next]_vars

-----------------------------------------------------------------------------
(* A caller that keeps the list get_fallbacks returned and changes it      *)
(* between calls: append, remove, reorder, replace.                        *)

HoldsList == callerRef # NoRef

CallerChanges(new) ==
    /\ HoldsList
    /\ new # heap[callerRef]
    /\ heap' = [heap EXCEPT ![callerRef] = new]
    /\ mutated' = TRUE
    /\ UNCHANGED <<config, callerRef, last, loaded, first, world>>

Reverse(s) == [i \in 1..Len(s) |-> s[Len(s) + 1 - i]]

CallerAppend(id) ==
    /\ HoldsList
    /\ Len(heap[callerRef]) < MaxCallerLen
    /\ CallerChanges(Append(heap[callerRef], id))

CallerRemove ==
    /\ HoldsList
    /\ heap[callerRef] # <<>>
    /\ CallerChanges(Tail(heap[callerRef]))

CallerReorder ==
    /\ HoldsList
    /\ CallerChanges(Reverse(heap[callerRef]))

CallerReplace(id) ==
    /\ HoldsList
    /\ heap[callerRef] # <<>>
    /\ CallerChanges([heap[callerRef] EXCEPT ![1] = id])

\* the history of route_task calls: the first call is kept, and whether a later
\* call had the same arguments
Remember(task, available_models) ==
    first' = IF first.set
             THEN [first EXCEPT !.repeated =
                      @ \/ (task = first.task /\ available_models = first.avail)]
             ELSE [set |-> TRUE, task |-> task, avail |-> available_models,
                   out |-> last'.out, repeated |-> FALSE]

\* the inputs of this caller
CallerTasks ==
    <<[key |-> <<"x">>, value |-> PyStr(<<"A">>)],
      [key |-> <<"y">>, value |-> PyStr(<<"b">>)]>>
CallerConfigs ==
    {c \in Configs :
        c.tasks = CallerTasks /\ \A i \in 1..Len(c.fallbacks) : c.fallbacks[i] # <<>>}
CallerAvailable == {<<>>, <<<<"a">>>>, <<<<"b">>, <<"A">>>>}
CallerIds == {<<"a">>, <<"b">>}
CallerNewIds == {<<"b">>}

InitCaller == \E c \in CallerConfigs : InitWith(c)

NextCaller ==
    \/ Idle /\ \E t \in TaskNames : GetModelForTask(t) /\ UNCHANGED <<first, mutated, world>>
    \/ Idle /\ GetFallbacks /\ UNCHANGED <<first, mutated, world>>
    \/ Idle /\ GetAvailableTasks /\ UNCHANGED <<first, mutated, world>>
    \/ Idle /\ \E m \in CallerIds, av \in CallerAvailable :
          ValidateOrFallback(m, av) /\ UNCHANGED <<first, mutated, world>>
    \/ Idle /\ \E t \in TaskNames, av \in CallerAvailable :
          RouteTask(t, av) /\ Remember(t, av) /\ UNCHANGED <<mutated, world>>
    \/ ResultConsumed
    \/ Idle /\ \E id \in CallerNewIds : CallerAppend(id)
    \/ Idle /\ CallerRemove
    \/ Idle /\ CallerReorder
    \/ Idle /\ \E id \in CallerNewIds : CallerReplace(id)

SpecCaller == InitCaller /\ [][NextCaller]_vars

-----------------------------------------------------------------------------
(* The vocabulary of the properties, stated over the configuration as      *)
(* loaded and the arguments and outcome of the last call.                  *)

SameLetter(c, d) ==
    \/ c = d
    \/ {c, d} = {"a", "A"}
    \/ {c, d} = {"b", "B"}

EqualIgnoringCase(s, t) ==
    /\ Len(s) = Len(t)
    /\ \A i \in 1..Len(s) : SameLetter(s[i], t[i])

\* the identifier appears in the list, ignoring letter case
AvailableIn(id, available) ==
    \E i \in 1..Len(available) : EqualIgnoringCase(id, available[i])

\* the identifier differs from an entry of the list in letter case only
CaseVariantIn(id, available) ==
    \E i \in 1..Len(available) :
        EqualIgnoringCase(id, available[i]) /\ id # available[i]

Configured(task) == \E i \in 1..Len(loaded.tasks) : loaded.tasks[i].key = task
ConfiguredValue(task) ==
    loaded.tasks[CHOOSE i \in 1..Len(loaded.tasks) : loaded.tasks[i].key = task].value

SomeFallbackAvailable(available) ==
    \E i \in 1..Len(loaded.fallbacks) : AvailableIn(loaded.fallbacks[i], available)

\* the available fallback with the smallest index in the configured list
BestFallback(available) ==
    loaded.fallbacks[CHOOSE i \in 1..Len(loaded.fallbacks) :
        /\ AvailableIn(loaded.fallbacks[i], available)
        /\ \A j \in 1..(i - 1) : ~AvailableIn(loaded.fallbacks[j], available)]

IsValidateCall == last.op = "validate_or_fallback"
IsRouteCall == last.op = "route_task"

\* the call resolved a preferred model that is a string: the model passed to
\* validate_or_fallback, or the model configured for the task of route_task
HasPreferred ==
    \/ IsValidateCall
    \/ IsRouteCall /\ Configured(last.task) /\ ConfiguredValue(last.task).type = "str"
Preferred ==
    IF IsValidateCall THEN last.model ELSE ConfiguredValue(last.task).chars

Returned(s) == last.out.kind = "return" /\ last.out.value = PyStr(s)
Failed == last.out.kind = "raise"
IsUnknownTask == Failed /\ Head(last.out.msg) = "Unknown task '"
IsNoModelAvailable == Failed /\ Head(last.out.msg) = "Neither model '"

\* the part of an unknown-task message that lists the tasks
ListedTasks(msg) ==
    LET marks == {i \in 1..Len(msg) : msg[i] = "'. Available tasks: "}
    IN  IF marks = {} THEN <<>>
        ELSE SubSeq(msg, (CHOOSE i \in marks : \A j \in marks : i <= j) + 1, Len(msg))

-----------------------------------------------------------------------------
\* C1: when the preferred model is not available (ignoring case) and some
\* configured fallback is, validate_or_fallback and route_task return the
\* available fallback with the smallest index in the configured list.
C1_FallbackOrder ==
    (HasPreferred /\ ~AvailableIn(Preferred, last.avail)
        /\ SomeFallbackAvailable(last.avail))
    => Returned(BestFallback(last.avail))

\* C1, the part the code satisfies: the statement for validate_or_fallback called
\* directly, and for route_task when the configured model is a non-empty string.
C1_FallbackOrderNonEmpty ==
    (HasPreferred /\ Preferred # <<>> /\ ~AvailableIn(Preferred, last.avail)
        /\ SomeFallbackAvailable(last.avail))
    => Returned(BestFallback(last.avail))

C3_PreferredWins ==
    (IsRouteCall /\ HasPreferred /\ AvailableIn(Preferred, last.avail))
    => Returned(Preferred)

\* C4: when neither the preferred model nor any fallback is available,
\* validate_or_fallback and route_task fail with NoModelAvailable, and the
\* message names the preferred model and says the fallbacks were exhausted.
C4_Exhaustion ==
    (HasPreferred /\ ~AvailableIn(Preferred, last.avail)
        /\ ~SomeFallbackAvailable(last.avail))
    => /\ IsNoModelAvailable
       /\ last.out.msg = <<"Neither model '">> \o Preferred
                            \o <<"' nor any fallbacks are available">>

\* C5: route_task with a task that is no key of the tasks mapping fails with
\* UnknownTask, and the message contains every configured task name, whatever
\* available_models is.
C5_UnknownTaskListsTasks ==
    (IsRouteCall /\ ~Configured(last.task))
    => /\ IsUnknownTask
       /\ contains(last.out.msg, last.task)
       /\ \A i \in 1..Len(loaded.tasks) :
              contains(ListedTasks(last.out.msg), loaded.tasks[i].key)
       /\ \A i \in 1..Len(heap[KeysAddr]) :
              contains(ListedTasks(last.out.msg), heap[KeysAddr][i])

\* an unknown task on a configuration with two tasks, models being available
C5_Witness ==
    /\ IsRouteCall /\ ~Configured(last.task)
    /\ Len(loaded.tasks) = 2
    /\ Len(heap[KeysAddr]) = 2
    /\ SomeFallbackAvailable(last.avail)
    /\ IsUnknownTask

\* C6: route_task reports UnknownTask only for a task that is no key of the
\* tasks mapping; for a configured task, whatever its value, it does not.
C6_UnknownTaskOnlyWhenAbsent ==
    (IsRouteCall /\ Configured(last.task)) => ~IsUnknownTask

\* C7: get_model_for_task never fails, returns the configured model (not the
\* absent result) for a configured task, and the absent result exactly for a
\* task that is not configured.
C7_AbsentMeansNotConfigured ==
    last.op = "get_model_for_task"
    => /\ last.out.kind = "return"
       /\ (Configured(last.task) => last.out.value = ConfiguredValue(last.task))
       /\ ((last.out.value = PyNone) <=> ~Configured(last.task))

\* C8: two route_task calls with the same arguments have the same outcome (the
\* same returned model, or the same error and message), whatever the caller did
\* in between.
C8_Deterministic ==
    (IsRouteCall /\ first.set /\ first.task = last.task /\ first.avail = last.avail)
    => last.out = first.out

\* a repeated call, after the caller changed a list it had been given
C8_Witness ==
    /\ IsRouteCall /\ first.repeated
    /\ first.task = last.task /\ first.avail = last.avail
    /\ mutated
    /\ last.out.kind = "return"

\* C9: get_fallbacks returns a copy: a list object other than the router's,
\* with the configured content in the configured order; once the caller has
\* changed a returned list, the router's list still has the loaded content,
\* get_fallbacks still returns it, and routing outcomes are what they were.
C9_GetFallbacksIsCopy ==
    /\ last.op = "get_fallbacks"
       => /\ last.out.kind = "return"
          /\ last.out.value.type = "list"
          /\ last.out.value.ref # config.fallbacks
          /\ heap[last.out.value.ref] = loaded.fallbacks
    /\ mutated => heap[config.fallbacks] = loaded.fallbacks
    /\ (mutated /\ IsRouteCall /\ first.set
            /\ first.task = last.task /\ first.avail = last.avail)
       => last.out = first.out

\* get_fallbacks called again after the caller changed the list it had
C9_Witness ==
    /\ mutated
    /\ last.op = "get_fallbacks"
    /\ heap[callerRef] = loaded.fallbacks

\* C10: after any sequence of calls, successful or failing, the tasks mapping
\* and the fallback list the router holds are the ones loaded at construction.
C10_ConfigImmutable ==
    /\ config.tasks = loaded.tasks
    /\ config.fallbacks = RouterAddr
    /\ heap[RouterAddr] = loaded.fallbacks

\* a failing route_task call after earlier calls and a change of a returned list
C10_Witness ==
    /\ IsRouteCall /\ Failed
    /\ first.repeated
    /\ mutated
    /\ heap[KeysAddr] # <<>>

-----------------------------------------------------------------------------
(* Loading: TaskRouter(config_path) reads the source, parses it and        *)
(* validates the payload.                                                  *)

\* the values yaml.safe_load produces: a type and, for a dict or a list, the items
\* (dict: [key, value] entries in file order; list: the elements)
YamlNone == [type |-> "NoneType", items |-> <<>>]
YamlStr == [type |-> "str", items |-> <<>>]
YamlList(elements) == [type |-> "list", items |-> elements]
YamlDict(entries) == [type |-> "dict", items |-> entries]

Entry(k, v) == [key |-> k, value |-> v]

\* d[k] for a key that is present
dict_item(d, k) == d[CHOOSE i \in 1..Len(d) : d[i].key = k].value

\* a loader that accepts no top-level key other than 'tasks' and 'fallbacks'
_load_config_strict(src) ==
    IF src.kind = "missing"
    THEN Raise("FileNotFoundError", <<"Routing config not found: ", "config_path">>)
    ELSE IF src.kind = "malformed"
    THEN Raise("ValueError", <<"Invalid YAML in routing config: ", "YAMLError">>)
    ELSE IF src.payload.type # "dict"
    THEN Raise("ValueError", <<"Routing config must be a dictionary">>)
    ELSE IF \E i \in 1..Len(src.payload.items) :
                src.payload.items[i].key \notin {"tasks", "fallbacks"}
    THEN Raise("ValueError", <<"Routing config has an unknown section">>)
    ELSE Return(src.payload)

_load_config(src) ==
    IF src.kind = "missing"
    THEN Raise("FileNotFoundError", <<"Routing config not found: ", "config_path">>)
    ELSE IF src.kind = "malformed"
    THEN Raise("ValueError", <<"Invalid YAML in routing config: ", "YAMLError">>)
    ELSE IF src.payload.type # "dict"
    THEN Raise("ValueError", <<"Routing config must be a dictionary">>)
    ELSE Return(src.payload)

\* the two joins of the log lines: str.join raises TypeError on an item that is no str
join_raises(values) == \E i \in 1..Len(values) : values[i].type # "str"

\* a validation that reports a missing 'fallbacks' section with the message of 'tasks'
_validate_config_same_message(cfg) ==
    IF ~dict_has(cfg.items, "tasks") \/ ~dict_has(cfg.items, "fallbacks")
    THEN Raise("ValueError", <<"Routing config must have 'tasks' section">>)
    ELSE LET tasks == dict_item(cfg.items, "tasks")
             fallbacks == dict_item(cfg.items, "fallbacks")
         IN  IF tasks.type # "dict" \/ tasks.items = <<>>
             THEN Raise("ValueError", <<"'tasks' must be a non-empty dictionary">>)
             ELSE IF fallbacks.type # "list" \/ fallbacks.items = <<>>
             THEN Raise("ValueError", <<"'fallbacks' must be a non-empty list">>)
             ELSE IF join_raises(dict_keys(tasks.items)) \/ join_raises(fallbacks.items)
             THEN Raise("TypeError", <<"sequence item: expected str instance">>)
             ELSE Return(PyNone)

\* a validation that accepts an empty 'fallbacks' list
_validate_config_empty_fallbacks(cfg) ==
    IF ~dict_has(cfg.items, "tasks")
    THEN Raise("ValueError", <<"Routing config must have 'tasks' section">>)
    ELSE IF ~dict_has(cfg.items, "fallbacks")
    THEN Raise("ValueError", <<"Routing config must have 'fallbacks' section">>)
    ELSE LET tasks == dict_item(cfg.items, "tasks")
             fallbacks == dict_item(cfg.items, "fallbacks")
         IN  IF tasks.type # "dict" \/ tasks.items = <<>>
             THEN Raise("ValueError", <<"'tasks' must be a non-empty dictionary">>)
             ELSE IF fallbacks.type # "list"
             THEN Raise("ValueError", <<"'fallbacks' must be a non-empty list">>)
             ELSE IF join_raises(dict_keys(tasks.items)) \/ join_raises(fallbacks.items)
             THEN Raise("TypeError", <<"sequence item: expected str instance">>)
             ELSE Return(PyNone)

_validate_config(cfg) ==
    IF ~dict_has(cfg.items, "tasks")
    THEN Raise("ValueError", <<"Routing config must have 'tasks' section">>)
    ELSE IF ~dict_has(cfg.items, "fallbacks")
    THEN Raise("ValueError", <<"Routing config must have 'fallbacks' section">>)
    ELSE LET tasks == dict_item(cfg.items, "tasks")
             fallbacks == dict_item(cfg.items, "fallbacks")
         IN  IF tasks.type # "dict" \/ tasks.items = <<>>
             THEN Raise("ValueError", <<"'tasks' must be a non-empty dictionary">>)
             ELSE IF fallbacks.type # "list" \/ fallbacks.items = <<>>
             THEN Raise("ValueError", <<"'fallbacks' must be a non-empty list">>)
             ELSE \* the log lines: ', '.join(tasks.keys()), then ', '.join(fallbacks)
                  IF join_raises(dict_keys(tasks.items)) \/ join_raises(fallbacks.items)
             THEN Raise("TypeError", <<"sequence item: expected str instance">>)
             ELSE Return(PyNone)

\* TaskRouter.__init__: the outcome of the constructor
TaskRouter_init(src) ==
    LET l == _load_config(src)
    IN  IF l.kind = "raise" THEN l ELSE _validate_config(l.value)

\* self.config of a router whose constructor returned: the tasks dict and the
\* fallbacks list of the payload (all keys and all fallbacks are str then)
config_tasks(payload) ==
    LET tasks == dict_item(payload.items, "tasks").items
    IN  [i \in 1..Len(tasks) |-> Entry(tasks[i].key.chars, tasks[i].value)]
config_fallbacks(payload) ==
    LET fallbacks == dict_item(payload.items, "fallbacks").items
    IN  [i \in 1..Len(fallbacks) |-> fallbacks[i].chars]

NoConfig == [tasks |-> <<>>, fallbacks |-> NoRef]
RouterExists == config # NoConfig

\* router = TaskRouter(config_path); when __init__ raises, the caller gets no router
Construct ==
    /\ boot = NoOutcome
    /\ boot' = TaskRouter_init(source)
    /\ IF boot'.kind = "return"
       THEN /\ config' = [tasks |-> config_tasks(source.payload), fallbacks |-> RouterAddr]
            /\ heap' = [heap EXCEPT ![RouterAddr] = config_fallbacks(source.payload)]
            /\ loaded' = [tasks |-> config_tasks(source.payload),
                          fallbacks |-> config_fallbacks(source.payload)]
       ELSE UNCHANGED <<config, heap, loaded>>
    /\ UNCHANGED <<source, callerRef, last, first, mutated, threads>>

-----------------------------------------------------------------------------
(* The sources.                                                            *)

\* what 'tasks' holds in a payload
TaskEntryValues == TaskValues \cup {PyInt}
PayloadTasks ==
    {YamlNone, YamlStr, YamlList(<<PyStr(<<"a">>)>>), YamlDict(<<>>)}
    \cup {YamlDict(<<Entry(PyStr(<<"x">>), v)>>) : v \in TaskEntryValues}
    \cup {YamlDict(<<Entry(PyStr(<<"x">>), PyStr(<<"A">>)),
                     Entry(PyStr(<<"y">>), PyStr(<<"b">>))>>),
          YamlDict(<<Entry(PyInt, PyStr(<<"a">>))>>)}

\* what 'fallbacks' holds in a payload
FallbackElements == {PyStr(<<"a">>), PyStr(<<"A">>), PyStr(<<"b">>), PyInt}
PayloadFallbacks ==
    {YamlNone, YamlStr, YamlDict(<<Entry(PyStr(<<"a">>), PyStr(<<"b">>))>>)}
    \cup {YamlList(l) : l \in SeqsUpTo(FallbackElements, MaxFallbacks)}

\* the payloads that are mappings: 'tasks' or not, 'fallbacks' or not, another key or not
Sections(k, values) == {<<>>} \cup {<<Entry(k, v)>> : v \in values}
PayloadDicts ==
    {YamlDict(t \o f \o o) :
        t \in Sections("tasks", PayloadTasks),
        f \in Sections("fallbacks", PayloadFallbacks),
        o \in Sections("defaults", {YamlStr})}

Sources ==
    {[kind |-> "missing", payload |-> YamlNone],
     [kind |-> "malformed", payload |-> YamlNone]}
    \cup {[kind |-> "parsed", payload |-> p] :
            p \in {YamlNone, YamlStr, YamlList(<<PyStr(<<"a">>)>>)} \cup PayloadDicts}

InitLoad ==
    /\ source \in Sources
    /\ boot = NoOutcome
    /\ config = NoConfig
    /\ heap = [a \in {RouterAddr, CallerAddr, KeysAddr} |-> <<>>]
    /\ callerRef = NoRef
    /\ last = NoCall
    /\ loaded = [tasks |-> <<>>, fallbacks |-> <<>>]
    /\ first = NoFirst
    /\ mutated = FALSE
    /\ ServerOff
    /\ NoThreads

NextLoad ==
    \/ Construct /\ UNCHANGED serverVars
    \/ RouterExists /\ Idle /\ \E t \in TaskNames :
          GetModelForTask(t) /\ UNCHANGED <<first, mutated, world>>
    \/ RouterExists /\ Idle /\ GetFallbacks /\ UNCHANGED <<first, mutated, world>>
    \/ RouterExists /\ Idle /\ GetAvailableTasks /\ UNCHANGED <<first, mutated, world>>
    \/ RouterExists /\ Idle /\ \E m \in ModelIds, av \in AvailableLists :
          ValidateOrFallback(m, av) /\ UNCHANGED <<first, mutated, world>>
    \/ RouterExists /\ Idle /\ \E t \in TaskNames, av \in AvailableLists :
          RouteTask(t, av) /\ UNCHANGED <<first, mutated, world>>
    \/ ResultConsumed

SpecLoad == InitLoad /\ [][NextLoad]_vars

-----------------------------------------------------------------------------
(* The server: serve() builds an MCPServer and runs it. handle_call_tool   *)
(* handles each tool call in a coroutine of its own, which is suspended    *)
(* while it awaits a reply of the upstream; what a handler does between    *)
(* two awaits is one step.                                                 *)

\* the state of the router and of its direct caller
routerVars == <<config, heap, callerRef, last, loaded, first, mutated, threads>>

\* handle_call_tool's except clause: raise McpError(f"Tool error: {str(e)}")
tool_error(msg) == Raise("McpError", <<"Tool error: ">> \o msg)

\* the handler of call c goes on with these locals
Continues(c, locals) ==
    /\ calls' = [calls EXCEPT ![c] = locals]
    /\ UNCHANGED <<failures, client>>

\* an except clause that also closes the upstream client
FailsClosingClient(c, locals, msg) ==
    /\ calls' = [calls EXCEPT ![c] = [locals EXCEPT !.pc = "failed", !.out = tool_error(msg)]]
    /\ failures' = TRUE
    /\ client' = "closed"

\* the handler of call c ends in the except clause: the call fails, nothing else changes
Fails(c, locals, msg) ==
    /\ calls' = [calls EXCEPT ![c] = [locals EXCEPT !.pc = "failed", !.out = tool_error(msg)]]
    /\ failures' = TRUE
    /\ UNCHANGED client

\* an __init__ that goes on without a router when the configuration is rejected
MCPServer_init_lenient ==
    /\ client' = "open"
    /\ Construct
    /\ phase' = "initialized"

\* MCPServer.__init__: the client, then the router; an error of TaskRouter leaves __init__
MCPServer_init ==
    /\ client' = "open"
    /\ Construct
    /\ phase' = IF boot'.kind = "return" THEN "initialized" ELSE "exited"

\* serve(): exit when the routing file does not exist, else build the server;
\* an exception of MCPServer(...) is not caught and ends the process
Serve ==
    /\ phase = "start"
    /\ IF source.kind = "missing"
       THEN /\ phase' = "exited"
            /\ UNCHANGED <<client, source, boot, routerVars>>
       ELSE MCPServer_init
    /\ UNCHANGED <<upstream, calls, failures>>

\* asyncio.run(server.run()): the server takes tool calls
Run ==
    /\ phase = "initialized"
    /\ phase' = "serving"
    /\ UNCHANGED <<client, upstream, calls, failures, source, boot, routerVars>>

\* a handle_call_tool whose route_chat asks for the model list before it looks at
\* 'messages'
HandleCallToolListsFirst(c, name, task, messages, arg) ==
    /\ phase = "serving"
    /\ calls[c].pc = "idle"
    /\ LET locals == [NoToolCall EXCEPT !.name = name, !.task = task, !.messages = messages,
                                        !.arg = arg, !.after_failure = failures]
           awaiting == [locals EXCEPT !.pc = "list_models", !.steps = <<"list_models">>]
       IN  CASE name = "list_models" -> Continues(c, awaiting)
             [] name = "validate_model" ->
                    IF falsy(arg) THEN Fails(c, locals, <<"Model name is required">>)
                    ELSE Continues(c, awaiting)
             [] name = "route_chat" ->
                    IF falsy(task) THEN Fails(c, locals, <<"Task is required">>)
                    ELSE Continues(c, awaiting)
             [] name = "cost_estimate" ->
                    IF falsy(arg) THEN Fails(c, locals, <<"Model name is required">>)
                    ELSE Continues(c, [locals EXCEPT !.pc = "done", !.out = Return(PyNone)])
             [] OTHER -> Fails(c, locals, <<"Unknown tool: ", name>>)
    /\ UNCHANGED <<phase, upstream, source, boot, routerVars>>

\* handle_call_tool up to the first await: the argument checks of the tool, then
\* the request for the model list (cost_estimate awaits nothing)
HandleCallTool(c, name, task, messages, arg) ==
    /\ phase = "serving"
    /\ calls[c].pc = "idle"
    /\ LET locals == [NoToolCall EXCEPT !.name = name, !.task = task, !.messages = messages,
                                        !.arg = arg, !.after_failure = failures]
           awaiting == [locals EXCEPT !.pc = "list_models", !.steps = <<"list_models">>]
       IN  CASE name = "list_models" -> Continues(c, awaiting)
             [] name = "validate_model" ->
                    IF falsy(arg) THEN Fails(c, locals, <<"Model name is required">>)
                    ELSE Continues(c, awaiting)
             [] name = "route_chat" ->
                    IF falsy(task) THEN Fails(c, locals, <<"Task is required">>)
                    ELSE IF ~messages THEN Fails(c, locals, <<"Messages are required">>)
                    ELSE Continues(c, awaiting)
             [] name = "cost_estimate" ->
                    IF falsy(arg) THEN Fails(c, locals, <<"Model name is required">>)
                    ELSE Continues(c, [locals EXCEPT !.pc = "done", !.out = Return(PyNone)])
             [] OTHER -> Fails(c, locals, <<"Unknown tool: ", name>>)
    /\ UNCHANGED <<phase, upstream, source, boot, routerVars>>

\* a _validate_model that reports the name as it was requested
validate_model_result_as_requested(name, ids) ==
    IF \E i \in 1..Len(ids) : lower(ids[i]) = lower(name) THEN PyStr(name) ELSE PyNone

\* _validate_model after the list: the first upstream id equal to the name ignoring
\* case, reported as {"name": id, ..., "exists": True}; None stands for {"exists": False}
validate_model_result(name, ids) ==
    LET hits == {i \in 1..Len(ids) : lower(ids[i]) = lower(name)}
    IN  IF hits = {} THEN PyNone
        ELSE PyStr(ids[CHOOSE i \in hits : \A j \in hits : i <= j])

\* _route_chat that goes on to chat_completion when routing fails
RouteChatRoutesAndChats(c, locals, ids) ==
    LET routed == route_task(heap, config, locals.task.chars, ids)
        model == IF routed.kind = "return" THEN routed.value ELSE locals.task
    IN  Continues(c, [locals EXCEPT !.available_models = ids,
                                    !.selected_model = model,
                                    !.chat_model = model,
                                    !.pc = "chat_completion",
                                    !.steps = @ \o <<"route_task", "chat_completion">>])

\* _route_chat that routes with a list another call holds, when there is one
RouteChatRoutesCached(c, locals, ids) ==
    LET holders == {d \in CallIds \ {c} : calls[d].list_reply.kind = "ok"}
        available_models ==
            IF holders = {} THEN ids
            ELSE calls[CHOOSE d \in holders : TRUE].available_models
        routed == route_task(heap, config, locals.task.chars, available_models)
        routing == [locals EXCEPT !.available_models = available_models,
                                  !.steps = @ \o <<"route_task">>]
    IN  IF routed.kind = "raise"
        THEN Fails(c, routing, routed.msg)
        ELSE Continues(c, [routing EXCEPT !.selected_model = routed.value,
                                          !.chat_model = routed.value,
                                          !.pc = "chat_completion",
                                          !.steps = @ \o <<"chat_completion">>])

\* _route_chat from the reply of list_models to the request of chat_completion:
\* available_models are the ids of the reply, route_task chooses, the chat is requested
RouteChatRoutes(c, locals, ids) ==
    LET available_models == ids
        routed == route_task(heap, config, locals.task.chars, available_models)
        routing == [locals EXCEPT !.available_models = available_models,
                                  !.steps = @ \o <<"route_task">>]
    IN  IF routed.kind = "raise"
        THEN Fails(c, routing, routed.msg)
        ELSE Continues(c, [routing EXCEPT !.selected_model = routed.value,
                                          !.chat_model = routed.value,
                                          !.pc = "chat_completion",
                                          !.steps = @ \o <<"chat_completion">>])

\* client.list_models() returns or raises, and the handler goes on to its next await
ListModelsReplies(c, reply) ==
    /\ phase = "serving"
    /\ calls[c].pc = "list_models"
    /\ reply.kind = "ok" => client = "open"
    /\ LET locals == [calls[c] EXCEPT !.list_reply = reply]
       IN  IF reply.kind = "error"
           THEN Fails(c, locals, <<"HTTPError">>)
           ELSE CASE locals.name = "list_models" ->
                       Continues(c, [locals EXCEPT !.available_models = reply.ids,
                                                   !.pc = "done", !.out = Return(PyNone)])
                  [] locals.name = "validate_model" ->
                       Continues(c, [locals EXCEPT
                                       !.available_models = reply.ids, !.pc = "done",
                                       !.out = Return(validate_model_result(locals.arg.chars,
                                                                            reply.ids))])
                  [] OTHER -> RouteChatRoutes(c, locals, reply.ids)
    /\ UNCHANGED <<phase, upstream, source, boot, routerVars>>

\* a _route_chat that reports the lower-cased identifier as the model used
ChatCompletionRepliesLowercased(c, reply) ==
    /\ phase = "serving"
    /\ calls[c].pc = "chat_completion"
    /\ reply.kind = "ok" => client = "open"
    /\ LET locals == [calls[c] EXCEPT !.chat_reply = reply]
       IN  IF reply.kind = "error"
           THEN Fails(c, locals, <<"HTTPError">>)
           ELSE Continues(c, [locals EXCEPT !.pc = "done",
                                            !.out = Return(PyStr(lower(locals.selected_model.chars)))])
    /\ UNCHANGED <<phase, upstream, source, boot, routerVars>>

\* client.chat_completion() returns or raises; the result names selected_model
ChatCompletionReplies(c, reply) ==
    /\ phase = "serving"
    /\ calls[c].pc = "chat_completion"
    /\ reply.kind = "ok" => client = "open"
    /\ LET locals == [calls[c] EXCEPT !.chat_reply = reply]
       IN  IF reply.kind = "error"
           THEN Fails(c, locals, <<"HTTPError">>)
           ELSE Continues(c, [locals EXCEPT !.pc = "done",
                                            !.out = Return(locals.selected_model)])
    /\ UNCHANGED <<phase, upstream, source, boot, routerVars>>

\* the result or the error of the call has gone to the MCP client
Respond(c) ==
    /\ calls[c].pc \in {"done", "failed"}
    /\ calls' = [calls EXCEPT ![c] = NoToolCall]
    /\ UNCHANGED <<phase, client, upstream, failures, source, boot, routerVars>>

\* run(): the stdio loop ends, normally or by an exception; `async with self.client`
\* closes the client, and asyncio.run cancels the handlers that are still suspended
RunEnds ==
    /\ phase = "serving"
    /\ phase' = "stopped"
    /\ client' = "closed"
    /\ calls' = [c \in CallIds |-> NoToolCall]
    /\ UNCHANGED <<upstream, failures, source, boot, routerVars>>

\* the upstream lists other models
UpstreamLists == {<<>>, << <<"b">> >>, << <<"a">>, <<"A">> >>}
UpstreamChanges ==
    /\ phase = "serving"
    /\ upstream' \in UpstreamLists \ {upstream}
    /\ UNCHANGED <<phase, client, calls, failures, source, boot, routerVars>>

\* the tool calls an MCP client sends
Request(name, task, messages, arg) ==
    [name |-> name, task |-> task, messages |-> messages, arg |-> arg]
Requests ==
    {Request("route_chat", PyNone, TRUE, PyNone),
     Request("route_chat", PyStr(<<>>), TRUE, PyNone),
     Request("route_chat", PyStr(<<"x">>), FALSE, PyNone),
     Request("route_chat", PyStr(<<"x">>), TRUE, PyNone),
     Request("route_chat", PyStr(<<"z">>), TRUE, PyNone),
     Request("list_models", PyNone, FALSE, PyNone),
     Request("validate_model", PyNone, FALSE, PyNone),
     Request("validate_model", PyNone, FALSE, PyStr(<<"A">>)),
     Request("cost_estimate", PyNone, FALSE, PyNone),
     Request("cost_estimate", PyNone, FALSE, PyStr(<<"a">>)),
     Request("no_such_tool", PyNone, FALSE, PyNone)}

\* the routing files the server is started with
ServerTasks ==
    {YamlDict(<<>>), YamlDict(<<Entry(PyStr(<<"x">>), PyStr(<<"A">>))>>)}
ServerFallbacks ==
    {YamlList(l) : l \in {<<>>, <<PyStr(<<"b">>)>>, <<PyInt>>}}
ServerSources ==
    {[kind |-> "missing", payload |-> YamlNone],
     [kind |-> "malformed", payload |-> YamlNone],
     [kind |-> "parsed", payload |-> YamlList(<<PyStr(<<"a">>)>>)]}
    \cup {[kind |-> "parsed", payload |-> YamlDict(t \o f)] :
            t \in Sections("tasks", ServerTasks),
            f \in Sections("fallbacks", ServerFallbacks)}

InitServer ==
    /\ source \in ServerSources
    /\ boot = NoOutcome
    /\ config = NoConfig
    /\ heap = [a \in {RouterAddr, CallerAddr, KeysAddr} |-> <<>>]
    /\ callerRef = NoRef
    /\ last = NoCall
    /\ loaded = [tasks |-> <<>>, fallbacks |-> <<>>]
    /\ first = NoFirst
    /\ mutated = FALSE
    /\ phase = "start"
    /\ client = "none"
    /\ upstream \in UpstreamLists
    /\ calls = [c \in CallIds |-> NoToolCall]
    /\ failures = FALSE
    /\ NoThreads

NextServer ==
    \/ Serve
    \/ Run
    \/ \E c \in CallIds, r \in Requests : HandleCallTool(c, r.name, r.task, r.messages, r.arg)
    \/ \E c \in CallIds, reply \in {ReplyOk(upstream), ReplyError} : ListModelsReplies(c, reply)
    \/ \E c \in CallIds, reply \in {ReplyOk(<<>>), ReplyError} : ChatCompletionReplies(c, reply)
    \/ \E c \in CallIds : Respond(c)
    \/ UpstreamChanges
    \/ RunEnds

SpecServer == InitServer /\ [][NextServer]_vars

-----------------------------------------------------------------------------
(* The vocabulary of the loading properties, in terms of the source that   *)
(* was given to the constructor and the outcome of the constructor.        *)

Constructed == boot # NoOutcome
Loaded == boot.kind = "return"
LoadFailed == boot.kind = "raise"

IsMapping(p) == p.type = "dict"
HasKey(p, k) == IsMapping(p) /\ \E i \in 1..Len(p.items) : p.items[i].key = k
Section(p, k) == p.items[CHOOSE i \in 1..Len(p.items) : p.items[i].key = k].value

\* 'tasks' is a non-empty mapping, 'fallbacks' is a non-empty sequence
TasksOk(p) ==
    HasKey(p, "tasks") /\ Section(p, "tasks").type = "dict" /\ Section(p, "tasks").items # <<>>
FallbacksOk(p) ==
    HasKey(p, "fallbacks") /\ Section(p, "fallbacks").type = "list"
        /\ Section(p, "fallbacks").items # <<>>
ViolatesShape(p) == ~TasksOk(p) \/ ~FallbacksOk(p)

NotAMapping == "Routing config must be a dictionary"
MissingTasks == "Routing config must have 'tasks' section"
MissingFallbacks == "Routing config must have 'fallbacks' section"
TasksNotNonEmptyMapping == "'tasks' must be a non-empty dictionary"
FallbacksNotNonEmptySequence == "'fallbacks' must be a non-empty list"
FourReasons ==
    {MissingTasks, MissingFallbacks, TasksNotNonEmptyMapping, FallbacksNotNonEmptySequence}

\* the error kinds of loading: the exception and what its message starts with
IsConfigNotFound == LoadFailed /\ boot.exc = "FileNotFoundError"
IsConfigParseError ==
    LoadFailed /\ boot.exc = "ValueError" /\ Head(boot.msg) = "Invalid YAML in routing config: "
IsConfigValidationError ==
    LoadFailed /\ boot.exc = "ValueError" /\ Head(boot.msg) \in FourReasons \cup {NotAMapping}
Reason == Head(boot.msg)

\* the payload violates the rule that the reason names
ReasonViolated(reason, p) ==
    \/ reason = NotAMapping /\ ~IsMapping(p)
    \/ reason = MissingTasks /\ IsMapping(p) /\ ~HasKey(p, "tasks")
    \/ reason = MissingFallbacks /\ IsMapping(p) /\ ~HasKey(p, "fallbacks")
    \/ reason = TasksNotNonEmptyMapping /\ HasKey(p, "tasks") /\ ~TasksOk(p)
    \/ reason = FallbacksNotNonEmptySequence /\ HasKey(p, "fallbacks") /\ ~FallbacksOk(p)

\* C11: a payload that lacks 'tasks', lacks 'fallbacks', has 'tasks' that is no
\* non-empty mapping or 'fallbacks' that is no non-empty sequence is rejected
\* with a validation error, no router exists and no call was made on one; and
\* every router that exists has non-empty tasks and non-empty fallbacks.
C11_InvalidPayloadRejected ==
    /\ (Constructed /\ source.kind = "parsed" /\ ViolatesShape(source.payload))
         => (IsConfigValidationError /\ ~RouterExists /\ last = NoCall)
    /\ RouterExists => (config.tasks # <<>> /\ heap[config.fallbacks] # <<>>)

\* a payload with 'tasks' in order and an empty 'fallbacks' list was rejected
C11_Witness ==
    /\ LoadFailed
    /\ TasksOk(source.payload)
    /\ HasKey(source.payload, "fallbacks")
    /\ Section(source.payload, "fallbacks") = YamlList(<<>>)

\* C12, as stated: the reason of a validation error is one of the four reasons
\* 'missing tasks section', 'missing fallbacks section', 'tasks not a non-empty
\* mapping', 'fallbacks not a non-empty sequence', and names a violated rule.
C12_OneOfFourReasons ==
    IsConfigValidationError =>
        (Reason \in FourReasons /\ ReasonViolated(Reason, source.payload))

\* C12, amended: the reason of a validation error is one of five pairwise
\* different reasons, the four above and 'not a mapping', and it names a rule
\* that the rejected payload violates, also when it violates several rules.
C12_ReasonNamesViolatedRule ==
    /\ Cardinality(FourReasons \cup {NotAMapping}) = 5
    /\ IsConfigValidationError =>
         (Reason \in FourReasons \cup {NotAMapping} /\ ReasonViolated(Reason, source.payload))
    /\ (Constructed /\ source.kind = "parsed" /\ ~IsMapping(source.payload))
         => (IsConfigValidationError /\ Reason = NotAMapping)

\* a payload that violates two rules, 'fallbacks' missing and 'tasks' present but
\* no non-empty mapping, was rejected for the missing 'fallbacks'
C12_Witness ==
    /\ IsConfigValidationError
    /\ Reason = MissingFallbacks
    /\ HasKey(source.payload, "tasks")
    /\ ~TasksOk(source.payload)

\* C13: a load failure is of one of three kinds and no other: not found for a
\* missing source, parse error for a malformed one, validation error for a
\* payload that is no mapping or violates a shape rule.
C13_ThreeErrorKinds ==
    LoadFailed =>
        /\ IsConfigNotFound \/ IsConfigParseError \/ IsConfigValidationError
        /\ (source.kind = "missing") = IsConfigNotFound
        /\ (source.kind = "malformed") = IsConfigParseError
        /\ (source.kind = "parsed") = IsConfigValidationError

\* the configured content of a payload that satisfies the shape rules
ConfiguredTasks == Section(source.payload, "tasks").items
ConfiguredFallbacks == Section(source.payload, "fallbacks").items
ConfiguredModel(t) ==
    ConfiguredTasks[CHOOSE i \in 1..Len(ConfiguredTasks) : ConfiguredTasks[i].key = PyStr(t)].value

\* C14: a payload that is a mapping with 'tasks' a non-empty mapping and
\* 'fallbacks' a non-empty sequence loads, and the router reports that content:
\* the configured model of each task, the task names, the fallbacks in order.
C14_ValidPayloadLoads ==
    (Constructed /\ source.kind = "parsed" /\ ~ViolatesShape(source.payload)) =>
        /\ Loaded
        /\ (last.op = "get_model_for_task"
              /\ \E i \in 1..Len(ConfiguredTasks) : ConfiguredTasks[i].key = PyStr(last.task))
             => last.out = Return(ConfiguredModel(last.task))
        /\ (last.op = "get_available_tasks")
             => [i \in 1..Len(ConfiguredTasks) |-> PyStr(heap[KeysAddr][i])]
                    = [i \in 1..Len(ConfiguredTasks) |-> ConfiguredTasks[i].key]
        /\ (last.op = "get_fallbacks")
             => [i \in 1..Len(ConfiguredFallbacks) |-> PyStr(heap[CallerAddr][i])]
                    = ConfiguredFallbacks

\* C15: on a router that loaded, route_task returns a model identifier or
\* fails with UnknownTask or NoModelAvailable, and with nothing else.
C15_RouteOutcomesExhaustive ==
    (Loaded /\ IsRouteCall) =>
        \/ last.out.kind = "return" /\ last.out.value.type = "str"
        \/ last.out.exc = "ValueError" /\ IsUnknownTask
        \/ last.out.exc = "ValueError" /\ IsNoModelAvailable

-----------------------------------------------------------------------------
(* The vocabulary of the server properties, in terms of the calls' locals  *)
(* and of the configuration that was loaded.                               *)

IsRouteChat(k) == k.name = "route_chat"
HasStep(k, step) == \E i \in 1..Len(k.steps) : k.steps[i] = step
CallFailed(k) == k.pc = "failed"
CallSucceeded(k) == k.pc = "done"

\* routing of the task of call k over the listed ids yields a model
RoutingYieldsModel(k, ids) ==
    /\ k.task.type = "str"
    /\ Configured(k.task.chars)
    /\ ConfiguredValue(k.task.chars).type = "str"
    /\ ConfiguredValue(k.task.chars).chars # <<>>
    /\ \/ AvailableIn(ConfiguredValue(k.task.chars).chars, ids)
       \/ SomeFallbackAvailable(ids)

\* whether call k, handled on its own with the replies it got, succeeds
SucceedsAlone(k) ==
    CASE k.name = "route_chat" ->
             /\ ~falsy(k.task) /\ k.messages
             /\ k.list_reply.kind = "ok"
             /\ RoutingYieldsModel(k, k.list_reply.ids)
             /\ k.chat_reply.kind = "ok"
      [] k.name = "list_models" -> k.list_reply.kind = "ok"
      [] k.name = "validate_model" -> ~falsy(k.arg) /\ k.list_reply.kind = "ok"
      [] k.name = "cost_estimate" -> ~falsy(k.arg)
      [] OTHER -> FALSE

\* C17: a failing tool call fails alone: the server keeps serving with the
\* router configuration and the client as they were, the failure is reported
\* as the error of that call, and every call, earlier failures or not, succeeds
\* or fails as it would on its own.
C17_FailureIsPerCall ==
    /\ (failures /\ phase # "stopped") => phase = "serving"
    /\ phase = "serving" =>
         /\ client = "open"
         /\ config = [tasks |-> loaded.tasks, fallbacks |-> RouterAddr]
         /\ heap[RouterAddr] = loaded.fallbacks
    /\ \A c \in CallIds :
         /\ CallFailed(calls[c]) =>
              (calls[c].out.kind = "raise" /\ calls[c].out.exc = "McpError"
                 /\ ~SucceedsAlone(calls[c]))
         /\ CallSucceeded(calls[c]) =>
              (calls[c].out.kind = "return" /\ SucceedsAlone(calls[c]))

\* a route_chat call received after a failure has got its model
C17_Witness ==
    \E c \in CallIds :
        /\ calls[c].after_failure
        /\ IsRouteChat(calls[c])
        /\ CallSucceeded(calls[c])
        /\ calls[c].out.value.type = "str"

\* C18: within a route_chat call the steps are list_models, route_task,
\* chat_completion in this order; chat_completion is called at most once, after
\* list_models returned and routing yielded a model, and never when list_models
\* or routing failed.
C18_StepsInOrder ==
    \A c \in CallIds :
        IsRouteChat(calls[c]) =>
            /\ calls[c].steps \in {<<>>, <<"list_models">>, <<"list_models", "route_task">>,
                                   <<"list_models", "route_task", "chat_completion">>}
            /\ HasStep(calls[c], "route_task") => calls[c].list_reply.kind = "ok"
            /\ HasStep(calls[c], "chat_completion") =>
                 /\ calls[c].list_reply.kind = "ok"
                 /\ RoutingYieldsModel(calls[c], calls[c].available_models)
                 /\ calls[c].chat_model.type = "str"
            /\ calls[c].chat_reply.kind # "none" => HasStep(calls[c], "chat_completion")

\* a route_chat call went through the three steps, and another one failed in routing
C18_Witness ==
    \E c, d \in CallIds :
        /\ IsRouteChat(calls[c]) /\ CallSucceeded(calls[c])
        /\ calls[c].steps = <<"list_models", "route_task", "chat_completion">>
        /\ IsRouteChat(calls[d]) /\ CallFailed(calls[d])
        /\ calls[d].steps = <<"list_models", "route_task">>

\* C19: a route_chat call that reaches routing has fetched the model list
\* itself, and routes with the list of its own fetch, whatever other calls do.
C19_ListFetchedPerCall ==
    \A c \in CallIds :
        (IsRouteChat(calls[c]) /\ HasStep(calls[c], "route_task")) =>
            /\ calls[c].list_reply.kind = "ok"
            /\ calls[c].available_models = calls[c].list_reply.ids

\* two route_chat calls in flight have routed with different lists
C19_Witness ==
    \E c, d \in CallIds :
        /\ IsRouteChat(calls[c]) /\ HasStep(calls[c], "route_task")
        /\ IsRouteChat(calls[d]) /\ HasStep(calls[d], "route_task")
        /\ calls[c].available_models # calls[d].available_models

\* the routing configuration is missing, malformed or violates a shape rule
InvalidSource == source.kind \in {"missing", "malformed"} \/ ViolatesShape(source.payload)

\* C20: with a routing configuration that is missing, malformed or violates a
\* shape rule the start ends the process: no server is built, no tool call is
\* handled; a server that is built or serves has a router with a valid
\* configuration.
C20_ConfigErrorAbortsStartup ==
    /\ (InvalidSource /\ phase # "start") =>
         /\ phase = "exited"
         /\ ~RouterExists
         /\ \A c \in CallIds : calls[c] = NoToolCall
    /\ (phase \in {"initialized", "serving"} \/ \E c \in CallIds : calls[c] # NoToolCall) =>
         /\ Loaded
         /\ ~InvalidSource
         /\ config.tasks # <<>>
         /\ heap[RouterAddr] # <<>>

\* the start with a payload that lacks 'fallbacks' has ended the process
C20_Witness ==
    /\ phase = "exited"
    /\ source.kind = "parsed"
    /\ HasKey(source.payload, "tasks")
    /\ ~HasKey(source.payload, "fallbacks")
    /\ LoadFailed

-----------------------------------------------------------------------------
(* Callers that run operations on one router at the same time. Each caller *)
(* is a thread with locals of its own; a step is one read of the router's  *)
(* state and what the thread does with it before the next read.            *)

\* what the threads leave alone: everything but their locals
beyondThreads ==
    <<config, heap, callerRef, last, loaded, first, mutated, source, boot, serverVars>>

ThreadReturns(t, locals, v) ==
    threads' = [threads EXCEPT ![t] = [locals EXCEPT !.pc = "done", !.out = Return(v)]]
ThreadRaises(t, locals, exc, msg) ==
    threads' = [threads EXCEPT ![t] = [locals EXCEPT !.pc = "done", !.out = Raise(exc, msg)]]
ThreadGoes(t, locals, pc) ==
    threads' = [threads EXCEPT ![t] = [locals EXCEPT !.pc = pc]]

\* a caller calls an operation: the thread stands before the first statement
Begin(t, op, task, model, available_models) ==
    /\ threads[t].pc = "idle"
    /\ threads' = [threads EXCEPT ![t] =
                     [NoThread EXCEPT !.pc = op, !.op = op, !.task = task, !.model = model,
                                      !.available_models = available_models]]
    /\ UNCHANGED beyondThreads

\* get_model_for_task: self.config['tasks'].get(task)
ThreadGetModelForTask(t) ==
    /\ threads[t].pc = "get_model_for_task"
    /\ ThreadReturns(t, threads[t], get_model_for_task(config, threads[t].task))
    /\ UNCHANGED beyondThreads

\* get_available_tasks: list(self.config['tasks'].keys())
ThreadGetAvailableTasks(t) ==
    /\ threads[t].pc = "get_available_tasks"
    /\ ThreadReturns(t, [threads[t] EXCEPT !.keys = get_available_tasks(config)], PyNone)
    /\ UNCHANGED beyondThreads

\* route_task up to the call of validate_or_fallback
ThreadRouteTask(t) ==
    /\ threads[t].pc = "route_task"
    /\ LET model == get_model_for_task(config, threads[t].task)
       IN  IF falsy(model)
           THEN ThreadRaises(t, threads[t], "ValueError",
                             unknown_task_message(config, threads[t].task))
           ELSE ThreadGoes(t, [threads[t] EXCEPT !.model = model], "validate_or_fallback")
    /\ UNCHANGED beyondThreads

\* validate_or_fallback up to the call of get_fallbacks
ThreadValidateOrFallback(t) ==
    /\ threads[t].pc = "validate_or_fallback"
    /\ LET model == threads[t].model
       IN  IF model.type # "str"
           THEN ThreadRaises(t, threads[t], "AttributeError",
                             <<"'", model.type, "' object has no attribute 'lower'">>)
           ELSE IF is_available(model.chars, threads[t].available_models)
           THEN ThreadReturns(t, threads[t], model)
           ELSE ThreadGoes(t, threads[t], "get_fallbacks")
    /\ UNCHANGED beyondThreads

\* a get_fallbacks that puts the router's own list in reverse order and hands it out
ThreadGetFallbacksInPlace(t) ==
    /\ threads[t].pc = "get_fallbacks"
    /\ heap' = [heap EXCEPT ![config.fallbacks] = Reverse(@)]
    /\ LET locals == [threads[t] EXCEPT !.fallbacks = heap'[config.fallbacks], !.i = 1]
       IN  IF locals.op = "get_fallbacks"
           THEN ThreadReturns(t, locals, PyNone)
           ELSE ThreadGoes(t, locals, "for fallback")
    /\ UNCHANGED <<config, callerRef, last, loaded, first, mutated, source, boot, serverVars>>

\* get_fallbacks, called by the caller or by validate_or_fallback: a copy of the list
ThreadGetFallbacks(t) ==
    /\ threads[t].pc = "get_fallbacks"
    /\ LET locals == [threads[t] EXCEPT !.fallbacks = fallbacks_copy(heap, config), !.i = 1]
       IN  IF locals.op = "get_fallbacks"
           THEN ThreadReturns(t, locals, PyNone)
           ELSE ThreadGoes(t, locals, "for fallback")
    /\ UNCHANGED beyondThreads

\* one turn of the loop over the copy, or the raise after the loop
ThreadForFallback(t) ==
    /\ threads[t].pc = "for fallback"
    /\ LET locals == threads[t]
       IN  IF locals.i > Len(locals.fallbacks)
           THEN ThreadRaises(t, locals, "ValueError", exhausted_message(locals.model.chars))
           ELSE IF is_available(locals.fallbacks[locals.i], locals.available_models)
           THEN ThreadReturns(t, locals, PyStr(locals.fallbacks[locals.i]))
           ELSE ThreadGoes(t, [locals EXCEPT !.i = @ + 1], "for fallback")
    /\ UNCHANGED beyondThreads

\* the caller has taken the result
ThreadDone(t) ==
    /\ threads[t].pc = "done"
    /\ threads' = [threads EXCEPT ![t] = NoThread]
    /\ UNCHANGED beyondThreads

\* the routers and the arguments of the concurrent callers
ConcurrentConfigs ==
    [tasks : {<<[key |-> <<"x">>, value |-> v]>> : v \in {PyNone, PyStr(<<>>), PyStr(<<"A">>)}},
     fallbacks : {<<<<"b">>>>, <<<<"a">>, <<"b">>>>}]
ConcurrentAvailable == {<<>>, <<<<"a">>>>, <<<<"b">>>>}
ConcurrentTasks == {<<"x">>, <<"z">>}
ConcurrentModels == {<<"A">>, <<"b">>}

InitConcurrent == \E c \in ConcurrentConfigs : InitWith(c)

NextConcurrent ==
    \/ \E t \in Callers, task \in ConcurrentTasks :
          Begin(t, "get_model_for_task", task, PyNone, <<>>)
    \/ \E t \in Callers : Begin(t, "get_fallbacks", <<>>, PyNone, <<>>)
    \/ \E t \in Callers : Begin(t, "get_available_tasks", <<>>, PyNone, <<>>)
    \/ \E t \in Callers, m \in ConcurrentModels, av \in ConcurrentAvailable :
          Begin(t, "validate_or_fallback", <<>>, PyStr(m), av)
    \/ \E t \in Callers, task \in ConcurrentTasks, av \in ConcurrentAvailable :
          Begin(t, "route_task", task, PyNone, av)
    \/ \E t \in Callers : ThreadGetModelForTask(t)
    \/ \E t \in Callers : ThreadGetAvailableTasks(t)
    \/ \E t \in Callers : ThreadRouteTask(t)
    \/ \E t \in Callers : ThreadValidateOrFallback(t)
    \/ \E t \in Callers : ThreadGetFallbacks(t)
    \/ \E t \in Callers : ThreadForFallback(t)
    \/ \E t \in Callers : ThreadDone(t)

SpecConcurrent == InitConcurrent /\ [][NextConcurrent]_vars

\* the router as it was loaded, and the outcome of a call that runs alone on it
LoadedHeap == [a \in {RouterAddr} |-> loaded.fallbacks]
LoadedConfig == [tasks |-> loaded.tasks, fallbacks |-> RouterAddr]
AloneOutcome(k) ==
    CASE k.op = "get_model_for_task" -> Return(get_model_for_task(LoadedConfig, k.task))
      [] k.op = "validate_or_fallback" ->
            validate_or_fallback(LoadedHeap, LoadedConfig, k.model.chars, k.available_models)
      [] k.op = "route_task" -> route_task(LoadedHeap, LoadedConfig, k.task, k.available_models)
      [] OTHER -> Return(PyNone)

\* C21: with callers running the five operations on one router in any
\* interleaving, each call ends with the outcome it has when it runs alone
\* (for get_fallbacks and get_available_tasks: the list it hands out), and the
\* router's tasks and fallbacks stay what was loaded.
C21_ConcurrentCallsAsAlone ==
    /\ config = LoadedConfig
    /\ heap[RouterAddr] = loaded.fallbacks
    /\ \A t \in Callers :
         threads[t].pc = "done" =>
            /\ threads[t].out = AloneOutcome(threads[t])
            /\ threads[t].op = "get_fallbacks" => threads[t].fallbacks = loaded.fallbacks
            /\ threads[t].op = "get_available_tasks" =>
                 threads[t].keys = [i \in 1..Len(loaded.tasks) |-> loaded.tasks[i].key]

\* a route_task call has returned a fallback while another caller is in the loop
C21_Witness ==
    \E t, u \in Callers :
        /\ t # u
        /\ threads[t].pc = "done" /\ threads[t].op = "route_task"
        /\ threads[t].out.kind = "return" /\ threads[t].i >= 1
        /\ threads[u].pc = "for fallback" /\ threads[u].i = 2

\* the payload of the source without the top-level keys other than 'tasks' and 'fallbacks'
IsRoutingKey(e) == e.key \in {"tasks", "fallbacks"}
Stripped == [source EXCEPT !.payload.items = SelectSeq(@, IsRoutingKey)]
HasOtherKeys == IsMapping(source.payload) /\ Stripped # source

\* the router that the stripped payload loads to, and the outcome of the last call on it
StrippedConfig == [tasks |-> config_tasks(Stripped.payload), fallbacks |-> RouterAddr]
StrippedHeap == [a \in {RouterAddr} |-> config_fallbacks(Stripped.payload)]
StrippedOutcome ==
    CASE last.op = "get_model_for_task" -> Return(get_model_for_task(StrippedConfig, last.task))
      [] last.op = "validate_or_fallback" ->
            validate_or_fallback(StrippedHeap, StrippedConfig, last.model, last.avail)
      [] last.op = "route_task" ->
            route_task(StrippedHeap, StrippedConfig, last.task, last.avail)
      [] OTHER -> last.out

\* C22: a payload with top-level keys besides 'tasks' and 'fallbacks' loads as
\* the payload without them does: the same outcome of the constructor, the same
\* tasks and fallbacks, and the same outcome of every operation.
C22_OtherKeysIgnored ==
    (Constructed /\ source.kind = "parsed" /\ IsMapping(source.payload)) =>
        /\ boot = TaskRouter_init(Stripped)
        /\ Loaded =>
             /\ config = StrippedConfig
             /\ heap[RouterAddr] = StrippedHeap[RouterAddr]
             /\ last.out = StrippedOutcome
             /\ last.op = "get_fallbacks" => heap[CallerAddr] = StrippedHeap[RouterAddr]
             /\ last.op = "get_available_tasks" =>
                  heap[KeysAddr] = get_available_tasks(StrippedConfig)

\* a router loaded from a payload with another key has routed a task to a model
C22_Witness ==
    /\ HasOtherKeys
    /\ Loaded
    /\ IsRouteCall
    /\ last.out.kind = "return"

\* the other letter case of a character and of an identifier
SwapCaseChar(c) ==
    CASE c = "a" -> "A"
      [] c = "A" -> "a"
      [] c = "b" -> "B"
      [] c = "B" -> "b"
      [] OTHER -> c
SwapCase(id) == [i \in 1..Len(id) |-> SwapCaseChar(id[i])]

\* the lists got from a list by reordering it (the reversal and the rotation by
\* one, of which every reordering is composed), by repeating one entry, or by
\* changing the letter case of one entry
Reorderings(a) == IF a = <<>> THEN {a} ELSE {Reverse(a), Tail(a) \o <<Head(a)>>}
Duplications(a) == {Append(a, a[i]) : i \in 1..Len(a)}
Recasings(a) == {[a EXCEPT ![i] = SwapCase(@)] : i \in 1..Len(a)}

\* C23: validate_or_fallback has the same outcome when available_models is
\* reordered, when an entry is repeated and when the letter case of an entry
\* is changed: the outcome depends on the set of lower-cased identifiers only.
C23_OnlyLowercasedSetMatters ==
    IsValidateCall =>
        \A other \in Reorderings(last.avail) \cup Duplications(last.avail)
                        \cup Recasings(last.avail) :
            validate_or_fallback(heap, config, last.model, other) = last.out

\* a call returned a model for a list that spells one identifier in two ways
C23_Witness ==
    /\ IsValidateCall
    /\ Len(last.avail) = 2
    /\ last.avail[1] # last.avail[2]
    /\ EqualIgnoringCase(last.avail[1], last.avail[2])
    /\ last.out.kind = "return"
    /\ last.avail[1] # <<>>

\* the identifier is an element of the configured fallback list
ConfiguredFallback(id) == \E i \in 1..Len(loaded.fallbacks) : loaded.fallbacks[i] = id

\* C24: a model returned by route_task is the model configured for the task or
\* an element of the configured fallbacks, in the configured spelling; it is
\* never taken from available_models or from the mapping of another task.
C24_ReturnedIsConfigured ==
    (IsRouteCall /\ last.out.kind = "return") =>
        /\ Configured(last.task)
        /\ \/ last.out.value = ConfiguredValue(last.task)
           \/ last.out.value.type = "str" /\ ConfiguredFallback(last.out.value.chars)

\* route_task returned the model of the task where the list spells it otherwise
\* and holds the model of another task
C24_Witness ==
    /\ IsRouteCall
    /\ Len(loaded.tasks) = 2
    /\ last.task = <<"x">>
    /\ last.out = Return(ConfiguredValue(last.task))
    /\ ~ConfiguredFallback(last.out.value.chars)
    /\ last.avail \in {<<<<"b">>, <<"a">>>>, <<<<"b">>, <<"A">>>>}
    /\ last.avail[2] # last.out.value.chars

\* the call awaits a reply of the upstream
AwaitsUpstream(k) == k.pc \in {"list_models", "chat_completion"}

\* C25: a route_chat call whose 'task' or 'messages' is missing or empty ends
\* with an error before anything else happens: no list_models, no route_task,
\* no chat_completion.
C25_MissingArgumentsRejectedFirst ==
    \A c \in CallIds :
        (IsRouteChat(calls[c]) /\ (falsy(calls[c].task) \/ ~calls[c].messages)) =>
            /\ CallFailed(calls[c])
            /\ calls[c].out.exc = "McpError"
            /\ calls[c].out.msg \in {<<"Tool error: ", "Task is required">>,
                                    <<"Tool error: ", "Messages are required">>}
            /\ calls[c].steps = <<>>
            /\ calls[c].list_reply = NoReply
            /\ calls[c].chat_reply = NoReply
            /\ calls[c].available_models = <<>>
            /\ calls[c].selected_model = PyNone

\* a route_chat call with a task and without messages was rejected while another
\* route_chat call was routed
C25_Witness ==
    \E c, d \in CallIds :
        /\ IsRouteChat(calls[c]) /\ ~falsy(calls[c].task) /\ ~calls[c].messages
        /\ CallFailed(calls[c])
        /\ IsRouteChat(calls[d]) /\ HasStep(calls[d], "route_task")

\* C26: in a successful route_chat call the model sent to chat_completion, the
\* model route_task returns for the task and the list of the call, and the
\* model_used of the result are one identifier.
C26_OneModelPerCall ==
    \A c \in CallIds :
        (IsRouteChat(calls[c]) /\ CallSucceeded(calls[c])) =>
            /\ calls[c].out.kind = "return"
            /\ calls[c].out.value = calls[c].chat_model
            /\ calls[c].chat_model = calls[c].selected_model
            /\ Return(calls[c].selected_model)
                 = route_task(LoadedHeap, LoadedConfig, calls[c].task.chars,
                              calls[c].list_reply.ids)

\* a route_chat call succeeded with a model that the upstream spells in another
\* letter case first
C26_Witness ==
    \E c \in CallIds :
        /\ IsRouteChat(calls[c]) /\ CallSucceeded(calls[c])
        /\ calls[c].out.value = PyStr(<<"A">>)
        /\ calls[c].list_reply.ids[1] = <<"a">>

\* the first upstream entry that equals the name when letter case is ignored
FirstMatch(name, ids) ==
    ids[CHOOSE i \in 1..Len(ids) :
            /\ EqualIgnoringCase(ids[i], name)
            /\ \A j \in 1..(i - 1) : ~EqualIgnoringCase(ids[j], name)]
IsValidateModel(k) == k.name = "validate_model"

\* C27: validate_model reports that the model exists exactly when an upstream
\* id equals the name ignoring letter case, with the first such entry in the
\* upstream's spelling; a name without a match gives a result, not an error; a
\* missing or empty name gives an error, and no other name does.
C27_ValidateModelReportsFirstMatch ==
    \A c \in CallIds :
        IsValidateModel(calls[c]) =>
            /\ falsy(calls[c].arg) =>
                 /\ CallFailed(calls[c])
                 /\ calls[c].out.msg = <<"Tool error: ", "Model name is required">>
                 /\ calls[c].steps = <<>>
            /\ (~falsy(calls[c].arg) /\ calls[c].list_reply.kind = "ok") =>
                 /\ CallSucceeded(calls[c])
                 /\ calls[c].out.kind = "return"
                 /\ (calls[c].out.value # PyNone)
                      = AvailableIn(calls[c].arg.chars, calls[c].list_reply.ids)
                 /\ calls[c].out.value # PyNone =>
                      calls[c].out.value
                        = PyStr(FirstMatch(calls[c].arg.chars, calls[c].list_reply.ids))
            /\ (~falsy(calls[c].arg) /\ CallFailed(calls[c])) =>
                 calls[c].list_reply.kind = "error"

\* validate_model found a name under another spelling of the upstream, and another
\* call found none
C27_Witness ==
    \E c, d \in CallIds :
        /\ IsValidateModel(calls[c]) /\ CallSucceeded(calls[c])
        /\ calls[c].out.value.type = "str"
        /\ calls[c].out.value.chars # calls[c].arg.chars
        /\ IsValidateModel(calls[d]) /\ CallSucceeded(calls[d])
        /\ calls[d].out.value = PyNone

\* C28: when the server has stopped, by the end of run() or by a construction
\* that a configuration error aborted, no client is open; and no call awaits
\* the upstream once the client is closed.
C28_ClientClosedWhenStopped ==
    /\ phase \in {"stopped", "exited"} => client \in {"none", "closed"}
    /\ client = "closed" => \A c \in CallIds : ~AwaitsUpstream(calls[c])

\* C28, the part the code satisfies: run() closes the client when the loop ends,
\* and no call awaits the upstream after that.
C28_RunClosesClient ==
    /\ phase = "stopped" => client = "closed"
    /\ client = "closed" => (phase = "stopped" /\ \A c \in CallIds : ~AwaitsUpstream(calls[c]))

====
